---- MODULE Spec2Model ----
(***************************************************************************)
(* Model of generate_photos_dataset.py: the directory walk that discovers  *)
(* photos (get_photo_paths), the EXIF extractor (get_photo_metadata) and   *)
(* the two dataset writers (write_csv_file, write_database).               *)
(*                                                                         *)
(* Strings that the code inspects character by character (file names,      *)
(* extensions, GPS references) are sequences of one-character strings.     *)
(* Python values that may be None are records with a "ty" field.  Floats   *)
(* are exact rationals [num, den] with den > 0 (rounding is not modelled). *)
(*                                                                         *)
(* The script is read as Python 2 code (the csv file is opened in 'wb'     *)
(* mode, line 128).  Library calls (os.walk, os.path.splitext, exifread,   *)
(* csv, sqlite3) are modelled by their documented behaviour at the line    *)
(* that calls them.  The files of the tree and the tags exifread decodes   *)
(* from them are inputs.                                                   *)
(***************************************************************************)
EXTENDS Integers, Sequences, FiniteSets, TLC

VARIABLES
    parent,           \* directory tree: parent[d] of every non-root directory
    fs,               \* the files of the tree, in listing order, with content
    rootExists,       \* root_directory exists and can be listed
    file_extensions,  \* the caller's extensions
    output_format,    \* "csv" | "sqlite"
    dest0,            \* what the destination path held before the run
    stack,            \* os.walk: directories still to be visited
    pending,          \* os.walk: files of the current directory not yet seen
    cur,              \* os.walk: the current directory (root of the triple)
    printed,          \* paths printed by line 111
    yielded,          \* paths yielded by get_photo_paths so far
    pc,               \* position of the writer
    dest,             \* the destination file
    txn,              \* sqlite: rows inserted since the last commit
    opened,           \* paths get_photo_metadata has opened
    photo_path,       \* extractor on its own: the path it is given
    content,          \* extractor on its own: the file at that path
    record            \* extractor on its own: what the call produced

vars == <<parent, fs, rootExists, file_extensions, output_format, dest0,
          stack, pending, cur, printed, yielded, pc, dest, txn, opened,
          photo_path, content, record>>

inputVars == <<parent, fs, rootExists, file_extensions, output_format, dest0>>
walkVars == <<stack, pending, cur, printed, yielded>>
writerVars == <<pc, dest, txn, opened>>
metaVars == <<photo_path, content, record>>

-----------------------------------------------------------------------------
(* Bounds *)

MaxDirs == 2
MaxFiles == 2
MaxPhotos == 3
MaxNum == 2
MaxDen == 2

Root == 1

-----------------------------------------------------------------------------
(* Strings *)

\* str.lower() on one character
LowerChar(c) ==
    CASE c = "J" -> "j"
      [] c = "P" -> "p"
      [] c = "A" -> "a"
      [] c = "S" -> "s"
      [] c = "W" -> "w"
      [] c = "N" -> "n"
      [] c = "E" -> "e"
      [] OTHER -> c

\* str.lower()
Lower(s) == [i \in 1..Len(s) |-> LowerChar(s[i])]

\* str.rfind(c), 1-based, 0 when c does not occur
RECURSIVE RFindFrom(_, _, _)
RFindFrom(s, c, i) ==
    IF i = 0 THEN 0
    ELSE IF s[i] = c THEN i
    ELSE RFindFrom(s, c, i - 1)

RFind(s, c) == RFindFrom(s, c, Len(s))

\* genericpath._splitext's loop: the first index in from..dotIndex-1 holding
\* a character other than the period, 0 when there is none
RECURSIVE FirstNonDot(_, _, _)
FirstNonDot(p, from, dotIndex) ==
    IF from >= dotIndex THEN 0
    ELSE IF p[from] # "." THEN from
    ELSE FirstNonDot(p, from + 1, dotIndex)

\* os.path.splitext(name)[1] for a name without separators
splitext1(p) ==
    LET dotIndex == RFind(p, ".")
    IN  IF dotIndex > 0 /\ FirstNonDot(p, 1, dotIndex) # 0
        THEN SubSeq(p, dotIndex, Len(p))
        ELSE <<>>

RECURSIVE LStrip(_, _)
LStrip(s, c) ==
    IF s # <<>> /\ Head(s) = c THEN LStrip(Tail(s), c) ELSE s

RECURSIVE RStrip(_, _)
RStrip(s, c) ==
    IF s # <<>> /\ s[Len(s)] = c THEN RStrip(SubSeq(s, 1, Len(s) - 1), c) ELSE s

\* str.strip(c)
Strip(s, c) == RStrip(LStrip(s, c), c)

-----------------------------------------------------------------------------
(* Python values *)

None == [ty |-> "None"]

\* a str given by its characters
PyStr(chars) == [ty |-> "str", chars |-> chars]

\* a path is a str already
PathStr(path) == [ty |-> "str", path |-> path]

RECURSIVE Gcd(_, _)
Gcd(a, b) == IF b = 0 THEN a ELSE Gcd(b, a % b)

Abs(n) == IF n < 0 THEN 0 - n ELSE n

\* the float n/d, d > 0
Float(n, d) ==
    LET g == Gcd(Abs(n), d)
    IN  [ty |-> "float", num |-> n \div g, den |-> d \div g]

FloatAdd(a, b) == Float(a.num * b.den + b.num * a.den, a.den * b.den)
FloatDivInt(a, k) == Float(a.num, a.den * k)
FloatNeg(a) == Float(0 - a.num, a.den)

\* exifread's Ratio and IfdTag
Ratio(n, d) == [num |-> n, den |-> d]
IfdTag(printable, values) ==
    [ty |-> "IfdTag", printable |-> printable, values |-> values]

-----------------------------------------------------------------------------
(* get_photo_metadata *)

COLUMNS == <<
    <<"File path", "text">>,
    <<"Camera", "text">>,
    <<"Time taken", "text">>,
    <<"Latitude", "real">>,
    <<"Longitude", "real">>,
    <<"Exposure time", "text">>,
    <<"Aperture", "real">>,
    <<"ISO", "integer">>,
    <<"Focal length", "real">> >>

GpsTags == {"GPS GPSLatitude", "GPS GPSLongitude",
            "GPS GPSLatitudeRef", "GPS GPSLongitudeRef"}

Tags == GpsTags \cup {"EXIF FNumber", "EXIF FocalLength", "Image Model",
                      "Image DateTime", "EXIF ExposureTime",
                      "EXIF ISOSpeedRatings"}

EmptyExif == [t \in {} |-> None]

\* dict.get(tag)
Get(tags, tag) == IF tag \in DOMAIN tags THEN tags[tag] ELSE None

\* the condition of lines 59-60
GpsPresent(tags) ==
    /\ Get(tags, "GPS GPSLatitude") # None
    /\ Get(tags, "GPS GPSLongitude") # None
    /\ Get(tags, "GPS GPSLatitudeRef") # None
    /\ Get(tags, "GPS GPSLongitudeRef") # None

\* lines 61-64 unpack exactly three values and divide each num by its den
UnpackFails(tag) ==
    \/ Len(tag.values) # 3
    \/ \E i \in 1..Len(tag.values) : tag.values[i].den = 0

\* val.num / float(val.den)
RatioToFloat(val) == Float(val.num, val.den)

DecimalDegreesMinutesAsSeconds(tag) ==
    LET degrees == RatioToFloat(tag.values[1])
        minutes == RatioToFloat(tag.values[2])
        seconds == RatioToFloat(tag.values[3])
    IN  FloatAdd(FloatAdd(degrees, FloatDivInt(minutes, 3600)),
                 FloatDivInt(seconds, 3600))

\* lines 66-67
DecimalDegrees(tag) ==
    LET degrees == RatioToFloat(tag.values[1])
        minutes == RatioToFloat(tag.values[2])
        seconds == RatioToFloat(tag.values[3])
    IN  FloatAdd(FloatAdd(degrees, FloatDivInt(minutes, 60)),
                 FloatDivInt(seconds, 3600))

\* lines 69-70 and 72-73: negate when str(ref).lower() is the letter
Signed(value, ref, letter) ==
    IF Lower(ref.printable) = <<letter>> THEN FloatNeg(value) ELSE value

\* lines 59-76, latitude
latitude(tags) ==
    IF GpsPresent(tags)
    THEN Signed(DecimalDegrees(tags["GPS GPSLatitude"]),
                tags["GPS GPSLatitudeRef"], "s")
    ELSE None

longitudeOwnTagsOnly(tags) ==
    IF /\ Get(tags, "GPS GPSLongitude") # None
       /\ Get(tags, "GPS GPSLongitudeRef") # None
    THEN Signed(DecimalDegrees(tags["GPS GPSLongitude"]),
                tags["GPS GPSLongitudeRef"], "w")
    ELSE None

\* lines 59-76, longitude
longitude(tags) ==
    IF GpsPresent(tags)
    THEN Signed(DecimalDegrees(tags["GPS GPSLongitude"]),
                tags["GPS GPSLongitudeRef"], "w")
    ELSE None

\* lines 82 and 84: values[0] is read and Fraction(str(ratio)) is taken
FractionFails(tag) ==
    tag # None /\ (tag.values = <<>> \/ Head(tag.values).den = 0)

\* float(fractions.Fraction(str(tag.values[0])))
FractionToFloat(tag) ==
    IF tag = None THEN None
    ELSE Float(Head(tag.values).num, Head(tag.values).den)

Raised == [ty |-> "raise"]

Fails(file) ==
    \/ ~file.decodable
    \/ /\ GpsPresent(file.exif)
       /\ \/ UnpackFails(file.exif["GPS GPSLatitude"])
          \/ UnpackFails(file.exif["GPS GPSLongitude"])
    \/ FractionFails(Get(file.exif, "EXIF FNumber"))
    \/ FractionFails(Get(file.exif, "EXIF FocalLength"))

CameraBlank(tags) ==
    IF "Image Model" \in DOMAIN tags THEN tags["Image Model"] ELSE PyStr(<<>>)

\* line 88
Camera(tags) == Get(tags, "Image Model")

\* lines 56-96: the dict returned, or the exception raised
get_photo_metadata(path, file) ==
    IF Fails(file) THEN Raised
    ELSE [ty |-> "dict",
          d |-> [c \in {COLUMNS[i][1] : i \in 1..Len(COLUMNS)} |->
            CASE c = "File path" -> PathStr(path)
              [] c = "Camera" -> Camera(file.exif)
              [] c = "Time taken" -> Get(file.exif, "Image DateTime")
              [] c = "Latitude" -> latitude(file.exif)
              [] c = "Longitude" -> longitude(file.exif)
              [] c = "Exposure time" -> Get(file.exif, "EXIF ExposureTime")
              [] c = "Aperture" ->
                    FractionToFloat(Get(file.exif, "EXIF FNumber"))
              [] c = "ISO" -> Get(file.exif, "EXIF ISOSpeedRatings")
              [] c = "Focal length" ->
                    FractionToFloat(Get(file.exif, "EXIF FocalLength"))]]

-----------------------------------------------------------------------------
(* The directory tree *)

\* os.path.join(root, name)
Join(root, name) == [root |-> root, name |-> name]

RECURSIVE DirPath(_, _)
DirPath(par, d) ==
    IF d = Root THEN <<Root>> ELSE Append(DirPath(par, par[d]), d)

\* the subdirectories of d, in listing order
\* the directories of the tree
DirsOf(par) == {Root} \cup DOMAIN par

RECURSIVE SubDirsFrom(_, _, _)
SubDirsFrom(par, d, c) ==
    IF c \notin DirsOf(par) THEN <<>>
    ELSE IF c # Root /\ par[c] = d THEN <<c>> \o SubDirsFrom(par, d, c + 1)
    ELSE SubDirsFrom(par, d, c + 1)

SubDirs(d) == SubDirsFrom(parent, d, Root)

\* the files of d, in listing order
FilesIn(d) == SelectSeq(fs, LAMBDA f : f.dir = d)

PathOf(f) == Join(DirPath(parent, f.dir), f.name)

\* the trees of n directories: every directory but the root has a parent
TreeShapes(n) == {p \in [2..n -> 1..n] : \A d \in 2..n : p[d] < d}

\* file lists of at most n files over the given names and contents: no two
\* files of one directory share a name, and the files of a directory are
\* contiguous (the order between directories carries no information)
FileLists(n, dirs, names, contents) ==
    UNION {
        {s \in [1..k -> [dir : dirs, name : names, content : contents]] :
            /\ \A i, j \in 1..k :
                  (i # j /\ s[i].dir = s[j].dir) => s[i].name # s[j].name
            /\ \A i \in 1..(k - 1) : s[i].dir <= s[i + 1].dir}
        : k \in 0..n}

-----------------------------------------------------------------------------
(* get_photo_paths *)

MatchesNoLower(name, extensions) ==
    Strip(splitext1(name), ".") \in extensions

\* line 112
Matches(name, extensions) ==
    Lower(Strip(splitext1(name), ".")) \in extensions

GenExhausted == stack = <<>> /\ pending = <<>>

WalkDirRaising ==
    /\ pc = "loop"
    /\ pending = <<>>
    /\ stack # <<>>
    /\ LET d == Head(stack)
       IN  IF d = Root /\ ~rootExists
           THEN /\ pc' = "error"
                /\ UNCHANGED <<stack, pending, cur>>
           ELSE /\ stack' = SubDirs(d) \o Tail(stack)
                /\ pending' = FilesIn(d)
                /\ cur' = d
                /\ UNCHANGED pc
    /\ UNCHANGED <<printed, yielded>>
    /\ UNCHANGED <<inputVars, dest, txn, opened, metaVars>>

\* os.walk moves to the next directory (line 109); a directory that cannot
\* be listed is passed over without an error (onerror is None)
WalkDir ==
    /\ pc = "loop"
    /\ pending = <<>>
    /\ stack # <<>>
    /\ LET d == Head(stack)
       IN  IF d = Root /\ ~rootExists
           THEN /\ stack' = Tail(stack)
                /\ UNCHANGED <<pending, cur>>
           ELSE /\ stack' = SubDirs(d) \o Tail(stack)
                /\ pending' = FilesIn(d)
                /\ cur' = d
    /\ UNCHANGED <<printed, yielded>>
    /\ UNCHANGED <<inputVars, writerVars, metaVars>>

\* lines 110-112, the extension is not in file_extensions
SkipFile ==
    /\ pc = "loop"
    /\ pending # <<>>
    /\ ~Matches(Head(pending).name, file_extensions)
    /\ printed' = Append(printed, PathOf(Head(pending)))
    /\ pending' = Tail(pending)
    /\ UNCHANGED <<stack, cur, yielded>>
    /\ UNCHANGED <<inputVars, writerVars, metaVars>>

\* lines 110-113, the generator's part of a yield
Yield ==
    /\ pc = "loop"
    /\ pending # <<>>
    /\ Matches(Head(pending).name, file_extensions)
    /\ printed' = Append(printed, PathOf(Head(pending)))
    /\ yielded' = Append(yielded, PathOf(Head(pending)))
    /\ pending' = Tail(pending)
    /\ UNCHANGED <<stack, cur>>
    /\ UNCHANGED inputVars

\* a consumer that only iterates the generator
YieldPath ==
    /\ Yield
    /\ UNCHANGED <<writerVars, metaVars>>

-----------------------------------------------------------------------------
(* Inputs of the discovery specification *)

Names == {
    <<"a", ".", "j">>,
    <<"a", ".", "J">>,
    <<"a", ".", "p">>,
    <<"a">>,
    <<".", "j">>,
    <<"a", ".">>,
    <<"a", ".", "p", ".", "j">> }

ExtensionSets == SUBSET {<<"j">>, <<"J">>, <<>>}

PlainContent == [decodable |-> TRUE, exif |-> EmptyExif]

\* nothing at the destination path
NoDest == [exists |-> FALSE, columns |-> <<>>, rows |-> <<>>]

InitWalk ==
    /\ stack = <<Root>>
    /\ pending = <<>>
    /\ cur = Root
    /\ printed = <<>>
    /\ yielded = <<>>

NotCalled == [ty |-> "not called"]

InitNoCall ==
    /\ photo_path = Join(<<Root>>, <<"a", ".", "j">>)
    /\ content = PlainContent
    /\ record = NotCalled

InitPaths ==
    /\ parent \in TreeShapes(MaxDirs)
    /\ fs \in FileLists(MaxFiles, DirsOf(parent), Names, {PlainContent})
    /\ rootExists \in BOOLEAN
    /\ file_extensions \in ExtensionSets
    /\ output_format = "csv"
    /\ dest0 = NoDest
    /\ InitWalk
    /\ pc = "loop"
    /\ dest = NoDest
    /\ txn = <<>>
    /\ opened = <<>>
    /\ InitNoCall

NextPaths == WalkDir \/ SkipFile \/ YieldPath

SpecPaths == InitPaths /\ [][NextPaths]_vars

-----------------------------------------------------------------------------
(* The extractor on its own: one call of get_photo_metadata *)

SampleDMS == <<Ratio(40, 1), Ratio(26, 1), Ratio(46, 1)>>

DefaultTag(t) ==
    CASE t = "GPS GPSLatitude" -> IfdTag(<<>>, SampleDMS)
      [] t = "GPS GPSLongitude" ->
            IfdTag(<<>>, <<Ratio(3, 1), Ratio(30, 1), Ratio(0, 1)>>)
      [] t = "GPS GPSLatitudeRef" -> IfdTag(<<"S">>, <<>>)
      [] t = "GPS GPSLongitudeRef" -> IfdTag(<<"E">>, <<>>)
      [] t = "EXIF FNumber" -> IfdTag(<<"1", "4", "/", "5">>, <<Ratio(14, 5)>>)
      [] t = "EXIF FocalLength" -> IfdTag(<<"5", "0">>, <<Ratio(50, 1)>>)
      [] t = "Image Model" -> IfdTag(<<"c", "a", "m">>, <<>>)
      [] t = "Image DateTime" -> IfdTag(<<"2", "0", "1", "5">>, <<>>)
      [] t = "EXIF ExposureTime" -> IfdTag(<<"1", "/", "4">>, <<Ratio(1, 4)>>)
      [] t = "EXIF ISOSpeedRatings" -> IfdTag(<<"1", "0", "0">>, <<>>)

Ratios == {Ratio(n, d) : n \in 0..MaxNum, d \in 0..MaxDen}
DMSValues == {<<a, b, c>> : a \in Ratios, b \in Ratios, c \in Ratios}
                \cup {<<Ratio(1, 1), Ratio(1, 1)>>}
RefValues == {<<"N">>, <<"S">>, <<"s">>, <<"E">>, <<"W">>, <<"w">>}

GpsExif(lat, latRef, lon, lonRef) ==
    [t \in GpsTags |->
        CASE t = "GPS GPSLatitude" -> IfdTag(<<>>, lat)
          [] t = "GPS GPSLongitude" -> IfdTag(<<>>, lon)
          [] t = "GPS GPSLatitudeRef" -> IfdTag(latRef, <<>>)
          [] t = "GPS GPSLongitudeRef" -> IfdTag(lonRef, <<>>)]

Decodable(tags) == [decodable |-> TRUE, exif |-> tags]

\* the files the extractor is tried on
MetaContent(file) ==
    \* a file that cannot be opened or decoded
    \/ file = [decodable |-> FALSE, exif |-> EmptyExif]
    \* every subset of the tags present, each with a well-formed value
    \/ \E P \in SUBSET Tags : file = Decodable([t \in P |-> DefaultTag(t)])
    \* all four GPS tags present: every latitude, every longitude, every
    \* pair of references
    \/ \E v \in DMSValues, r \in RefValues :
          file = Decodable(GpsExif(v, r, SampleDMS, <<"E">>))
    \/ \E v \in DMSValues, r \in RefValues :
          file = Decodable(GpsExif(SampleDMS, <<"N">>, v, r))
    \/ \E r1 \in RefValues, r2 \in RefValues :
          file = Decodable(GpsExif(SampleDMS, r1, SampleDMS, r2))
    \* a present f-number or focal length that cannot be converted
    \/ \E tag \in {"EXIF FNumber", "EXIF FocalLength"} :
          file = Decodable([t \in {tag} |-> IfdTag(<<>>, <<Ratio(1, 0)>>)])

InitMeta ==
    /\ parent \in TreeShapes(1)
    /\ fs = <<>>
    /\ rootExists = TRUE
    /\ file_extensions = {}
    /\ output_format = "csv"
    /\ dest0 = NoDest
    /\ InitWalk
    /\ pc = "call"
    /\ dest = NoDest
    /\ txn = <<>>
    /\ opened = <<>>
    /\ photo_path \in {Join(<<Root>>, <<"a", ".", "j">>),
                       Join(<<Root>>, <<"a", ".", "J">>)}
    /\ MetaContent(content)
    /\ record = NotCalled

\* one call get_photo_metadata(photo_path) on a file holding content
Extract ==
    /\ pc = "call"
    /\ record = NotCalled
    /\ record' = get_photo_metadata(photo_path, content)
    /\ UNCHANGED <<inputVars, walkVars, writerVars, photo_path, content>>

NextMeta == Extract

SpecMeta == InitMeta /\ [][NextMeta]_vars

-----------------------------------------------------------------------------
(* The writers: write_csv_file and write_database, called by main *)

ColumnNames == [i \in 1..Len(COLUMNS) |-> COLUMNS[i][1]]

ColumnType(c) ==
    LET i == CHOOSE k \in 1..Len(COLUMNS) : COLUMNS[k][1] = c
    IN  COLUMNS[i][2]

\* str(value), as '%s' % value and the csv module apply it
Str(value) ==
    CASE value.ty = "None" -> PyStr(<<"N", "o", "n", "e">>)
      [] value.ty = "IfdTag" -> PyStr(value.printable)
      [] value.ty = "float" -> [ty |-> "str", repr |-> value]
      [] OTHER -> value

\* the csv module writes None as the empty string
CsvCell(value) == IF value = None THEN PyStr(<<>>) ELSE Str(value)

\* writer.writerow(record), line 133
CsvRow(d) == [c \in DOMAIN d |-> CsvCell(d[c])]

SqlNull == [ty |-> "NULL"]

\* a double-quoted literal stored in a column of the given declared type
SqlStored(text, type) == [ty |-> "sql", type |-> type, text |-> text]

\* lines 159-161: every value is formatted with '"%s"' and inserted
SqlRow(d) == [c \in DOMAIN d |-> SqlStored(Str(d[c]), ColumnType(c))]

\* lines 128-130: the file is opened for writing and the header is written
NewCsvFile(old) == [exists |-> TRUE, columns |-> ColumnNames, rows |-> <<>>]

KeptDatabase(old) ==
    IF old.exists THEN old
    ELSE [exists |-> TRUE, columns |-> COLUMNS, rows |-> <<>>]

\* lines 150-155: an existing file is removed, the table is created and
\* the creation is committed
NewDatabase(old) == [exists |-> TRUE, columns |-> COLUMNS, rows |-> <<>>]

\* main, lines 171-172
InvalidFormat ==
    /\ pc = "main"
    /\ output_format \notin {"csv", "sqlite"}
    /\ pc' = "error"
    /\ UNCHANGED <<dest, txn, opened>>
    /\ UNCHANGED <<inputVars, walkVars, metaVars>>

\* write_csv_file, lines 126-130
OpenCsv ==
    /\ pc = "main"
    /\ output_format = "csv"
    /\ dest' = NewCsvFile(dest)
    /\ pc' = "loop"
    /\ UNCHANGED <<txn, opened>>
    /\ UNCHANGED <<inputVars, walkVars, metaVars>>

\* write_database, lines 148-155
OpenDb ==
    /\ pc = "main"
    /\ output_format = "sqlite"
    /\ dest' = NewDatabase(dest)
    /\ txn' = <<>>
    /\ pc' = "loop"
    /\ UNCHANGED opened
    /\ UNCHANGED <<inputVars, walkVars, metaVars>>

WritePhotoCsvSkipping ==
    /\ output_format = "csv"
    /\ Yield
    /\ LET f == Head(pending)
           r == get_photo_metadata(PathOf(f), f.content)
       IN  /\ opened' = Append(opened, PathOf(f))
           /\ IF r = Raised
              THEN UNCHANGED dest
              ELSE dest' = [dest EXCEPT !.rows = Append(@, CsvRow(r.d))]
           /\ UNCHANGED pc
    /\ UNCHANGED <<txn, metaVars>>

\* write_csv_file, lines 132-133: the next path is yielded, its metadata is
\* read and the row is written; an exception leaves the function
WritePhotoCsv ==
    /\ output_format = "csv"
    /\ Yield
    /\ LET f == Head(pending)
           r == get_photo_metadata(PathOf(f), f.content)
       IN  /\ opened' = Append(opened, PathOf(f))
           /\ IF r = Raised
              THEN /\ pc' = "error"
                   /\ UNCHANGED dest
              ELSE /\ dest' = [dest EXCEPT !.rows = Append(@, CsvRow(r.d))]
                   /\ UNCHANGED pc
    /\ UNCHANGED <<txn, metaVars>>

InsertPhotoDbAutocommit ==
    /\ output_format = "sqlite"
    /\ Yield
    /\ LET f == Head(pending)
           r == get_photo_metadata(PathOf(f), f.content)
       IN  /\ opened' = Append(opened, PathOf(f))
           /\ IF r = Raised
              THEN /\ pc' = "error"
                   /\ UNCHANGED dest
              ELSE /\ dest' = [dest EXCEPT !.rows = Append(@, SqlRow(r.d))]
                   /\ UNCHANGED pc
    /\ UNCHANGED <<txn, metaVars>>

\* write_database, lines 157-161: the next path is yielded, its metadata is
\* read and the row is inserted, uncommitted; an exception leaves the
\* function
InsertPhotoDb ==
    /\ output_format = "sqlite"
    /\ Yield
    /\ LET f == Head(pending)
           r == get_photo_metadata(PathOf(f), f.content)
       IN  /\ opened' = Append(opened, PathOf(f))
           /\ IF r = Raised
              THEN /\ pc' = "error"
                   /\ UNCHANGED txn
              ELSE /\ txn' = Append(txn, SqlRow(r.d))
                   /\ UNCHANGED pc
    /\ UNCHANGED <<dest, metaVars>>

\* write_csv_file, line 135
CloseCsv ==
    /\ pc = "loop"
    /\ output_format = "csv"
    /\ GenExhausted
    /\ pc' = "done"
    /\ UNCHANGED <<dest, txn, opened>>
    /\ UNCHANGED <<inputVars, walkVars, metaVars>>

\* write_database, lines 163-164
CommitDb ==
    /\ pc = "loop"
    /\ output_format = "sqlite"
    /\ GenExhausted
    /\ dest' = [dest EXCEPT !.rows = @ \o txn]
    /\ txn' = <<>>
    /\ pc' = "done"
    /\ UNCHANGED opened
    /\ UNCHANGED <<inputVars, walkVars, metaVars>>

-----------------------------------------------------------------------------
(* Inputs of a run *)

PhotoNames == {<<"a", ".", "j">>, <<"a", ".", "J">>, <<"a", ".", "p">>}

AllTags == [t \in Tags |-> DefaultTag(t)]

PhotoContents == {
    [decodable |-> FALSE, exif |-> EmptyExif],
    [decodable |-> TRUE, exif |-> EmptyExif],
    [decodable |-> TRUE, exif |-> AllTags] }

\* a dataset left at the destination by an earlier run
OldRow == [c \in {"File path"} |-> PyStr(<<"o", "l", "d">>)]
OldDest == [exists |-> TRUE, columns |-> ColumnNames, rows |-> <<OldRow>>]

Init ==
    /\ parent \in TreeShapes(2)
    /\ output_format \in {"csv", "sqlite", "xml"}
    /\ fs \in IF output_format = "xml" THEN {<<>>}
              ELSE FileLists(MaxPhotos, DirsOf(parent), PhotoNames,
                             PhotoContents)
    /\ rootExists \in BOOLEAN
    /\ file_extensions = {<<"j">>}
    /\ dest0 \in {NoDest, OldDest}
    /\ InitWalk
    /\ pc = "main"
    /\ dest = dest0
    /\ txn = <<>>
    /\ opened = <<>>
    /\ InitNoCall

Next ==
    \/ InvalidFormat
    \/ OpenCsv
    \/ OpenDb
    \/ WalkDir
    \/ SkipFile
    \/ WritePhotoCsv
    \/ InsertPhotoDb
    \/ CloseCsv
    \/ CommitDb

Spec == Init /\ [][Next]_vars

-----------------------------------------------------------------------------
(* Claims about get_photo_paths, under SpecPaths *)

Occurrences(seq, x) == Cardinality({i \in DOMAIN seq : seq[i] = x})

\* the position of the period that starts the extension of a name: the last
\* period, when some other character precedes it
ExtensionDots(name) ==
    {i \in DOMAIN name :
        /\ name[i] = "."
        /\ \A j \in DOMAIN name : j > i => name[j] # "."
        /\ \E j \in DOMAIN name : j < i /\ name[j] # "."}

\* the extension of a name without its leading period; empty when the name
\* has no extension
BareExtension(name) ==
    IF ExtensionDots(name) = {} THEN <<>>
    ELSE LET i == CHOOSE k \in ExtensionDots(name) : TRUE
         IN  SubSeq(name, i + 1, Len(name))

Wanted(f) == Lower(BareExtension(f.name)) \in file_extensions

C2_CaseInsensitiveRequest ==
    (GenExhausted /\ rootExists) =>
        \A k \in DOMAIN fs :
            (\E e \in file_extensions :
                Lower(e) = Lower(BareExtension(fs[k].name)))
            => Occurrences(yielded, PathOf(fs[k])) = 1

-----------------------------------------------------------------------------
(* Claims about get_photo_metadata, under SpecMeta *)

Present(tag) == tag \in DOMAIN content.exif

\* C3: in every record returned, Latitude and Longitude are both present or
\* both absent, and present exactly when all four GPS tags are present.
C3_GpsAllOrNothing ==
    record.ty = "dict" =>
        /\ (record.d["Latitude"] = None) <=> (record.d["Longitude"] = None)
        /\ (record.d["Latitude"] # None) <=>
              /\ Present("GPS GPSLatitude")
              /\ Present("GPS GPSLongitude")
              /\ Present("GPS GPSLatitudeRef")
              /\ Present("GPS GPSLongitudeRef")

C3_Witness ==
    /\ record.ty = "dict"
    /\ Present("GPS GPSLatitude")
    /\ Present("GPS GPSLongitude")
    /\ Present("GPS GPSLongitudeRef")
    /\ ~Present("GPS GPSLatitudeRef")
    /\ record.d["Latitude"] = None
    /\ record.d["Longitude"] = None

\* coord = sign * (degrees + minutes/60 + seconds/3600), as an equation
\* between integers
IsDecimalOf(coord, v, negated) ==
    LET den == v[1].den * v[2].den * v[3].den
        num == 3600 * v[1].num * v[2].den * v[3].den
               + 60 * v[2].num * v[1].den * v[3].den
               + v[3].num * v[1].den * v[2].den
    IN  /\ coord.ty = "float"
        /\ coord.den > 0
        /\ coord.num * 3600 * den
              = (IF negated THEN 0 - num ELSE num) * coord.den

\* C4: with all four GPS tags present, each coordinate is degrees +
\* minutes/60 + seconds/3600, negated for latitude exactly when the latitude
\* reference is S in either case and for longitude exactly when the
\* longitude reference is W in either case.
C4_DecimalDegrees ==
    (record.ty = "dict" /\ GpsTags \subseteq DOMAIN content.exif) =>
        /\ IsDecimalOf(record.d["Latitude"],
                       content.exif["GPS GPSLatitude"].values,
                       content.exif["GPS GPSLatitudeRef"].printable
                            \in {<<"S">>, <<"s">>})
        /\ IsDecimalOf(record.d["Longitude"],
                       content.exif["GPS GPSLongitude"].values,
                       content.exif["GPS GPSLongitudeRef"].printable
                            \in {<<"W">>, <<"w">>})

C4_Witness ==
    /\ record.ty = "dict"
    /\ GpsTags \subseteq DOMAIN content.exif
    /\ content.exif["GPS GPSLatitude"].values = SampleDMS
    /\ content.exif["GPS GPSLatitudeRef"].printable = <<"s">>
    /\ content.exif["GPS GPSLongitudeRef"].printable = <<"S">>
    /\ record.d["Latitude"].num < 0
    /\ record.d["Longitude"].num > 0

\* every tag that is present holds values the conversions accept
WellFormed(tags) ==
    /\ \A t \in {"GPS GPSLatitude", "GPS GPSLongitude"} \cap DOMAIN tags :
          /\ Len(tags[t].values) = 3
          /\ \A i \in 1..3 : tags[t].values[i].den # 0
    /\ \A t \in {"EXIF FNumber", "EXIF FocalLength"} \cap DOMAIN tags :
          /\ tags[t].values # <<>>
          /\ tags[t].values[1].den # 0

SourceTags(field) ==
    CASE field = "Camera" -> {"Image Model"}
      [] field = "Time taken" -> {"Image DateTime"}
      [] field = "Latitude" -> GpsTags
      [] field = "Longitude" -> GpsTags
      [] field = "Exposure time" -> {"EXIF ExposureTime"}
      [] field = "Aperture" -> {"EXIF FNumber"}
      [] field = "ISO" -> {"EXIF ISOSpeedRatings"}
      [] field = "Focal length" -> {"EXIF FocalLength"}

DerivedFields == {"Camera", "Time taken", "Latitude", "Longitude",
                  "Exposure time", "Aperture", "ISO", "Focal length"}

\* C9: on a file that can be opened and decoded, whatever subset of the
\* tags is present, get_photo_metadata returns a record of exactly the 9
\* fields: File path is the given path and every other field is absent
\* exactly when one of its source tags is missing.
C9_AbsentTagsNeverFail ==
    (record # NotCalled /\ content.decodable /\ WellFormed(content.exif)) =>
        /\ record.ty = "dict"
        /\ DOMAIN record.d = DerivedFields \cup {"File path"}
        /\ record.d["File path"] = PathStr(photo_path)
        /\ \A f \in DerivedFields :
              (record.d[f] = None) <=>
                  ~(SourceTags(f) \subseteq DOMAIN content.exif)

C9_Witness ==
    /\ record.ty = "dict"
    /\ DOMAIN content.exif = {"GPS GPSLatitude", "EXIF FNumber"}
    /\ record.d["Camera"] = None
    /\ record.d["Latitude"] = None
    /\ record.d["Aperture"] # None

-----------------------------------------------------------------------------
(* Claims about the writers, under Spec *)

ValidFormat == output_format \in {"csv", "sqlite"}

FileAt(path) == CHOOSE k \in DOMAIN fs : PathOf(fs[k]) = path

\* what get_photo_metadata gives for the file at a path of the tree
RecordOf(path) == get_photo_metadata(path, fs[FileAt(path)].content)

\* the data rows written so far: csv rows, or sqlite rows committed or not
RowsWritten == IF output_format = "csv" THEN dest.rows ELSE dest.rows \o txn

\* the path a data row is for
RowPath(row) ==
    IF output_format = "csv" THEN row["File path"] ELSE row["File path"].text

\* the number of files of the tree that discovery finds
Discovered ==
    IF rootExists THEN Cardinality({k \in DOMAIN fs : Wanted(fs[k])}) ELSE 0

\* C5: after a run of either writer that completes without error over a
\* tree in which N files are discovered, the output holds exactly N data
\* rows, one per discovered path and none else, in the order the paths were
\* yielded, whatever the destination held before.
C5_RowsInDiscoveryOrder ==
    pc = "done" =>
        /\ Len(dest.rows) = Discovered
        /\ Len(dest.rows) = Len(yielded)
        /\ \A i \in DOMAIN yielded : RowPath(dest.rows[i]) = PathStr(yielded[i])

C5_Witness ==
    /\ pc = "done"
    /\ output_format = "sqlite"
    /\ dest0 = OldDest
    /\ Len(dest.rows) = 2
    /\ \E i \in DOMAIN fs : ~Wanted(fs[i])

\* C6: in write_database every field that is absent in a record is stored
\* in the inserted row as the table's null.
C6_AbsentStoredAsNull ==
    (output_format = "sqlite" /\ pc # "main") =>
        \A i \in DOMAIN RowsWritten :
            \A f \in DerivedFields :
                RecordOf(yielded[i]).d[f] = None => RowsWritten[i][f] = SqlNull

C8_AbortOnFirstFailure ==
    /\ \A i \in DOMAIN opened :
          (i < Len(opened) /\ ValidFormat) => RecordOf(opened[i]) # Raised
    /\ (pc = "error" /\ ValidFormat) =>
          LET k == Len(opened)
          IN  /\ k >= 1
              /\ opened = yielded
              /\ RecordOf(opened[k]) = Raised
              /\ Len(RowsWritten) = k - 1
              /\ \A i \in 1..(k - 1) :
                    RowPath(RowsWritten[i]) = PathStr(opened[i])

C8_Witness ==
    /\ pc = "error"
    /\ output_format = "csv"
    /\ Len(opened) = 2
    /\ Len(dest.rows) = 1
    /\ \E i \in DOMAIN fs :
          /\ Wanted(fs[i])
          /\ fs[i].content.decodable
          /\ Occurrences(opened, PathOf(fs[i])) = 0

\* C10: in write_database inserted rows become durable only at the commit
\* after the last insert: when a run aborts on a decode failure the
\* destination holds the freshly created photos table with zero committed
\* rows, and whatever file was there before the run is gone.
C10_AbortLeavesEmptyTable ==
    output_format = "sqlite" =>
        /\ pc = "loop" => dest.rows = <<>>
        /\ pc = "error" =>
              dest = [exists |-> TRUE, columns |-> COLUMNS, rows |-> <<>>]

C10_Witness ==
    /\ pc = "error"
    /\ output_format = "sqlite"
    /\ dest0 = OldDest
    /\ Len(txn) = 2
    /\ dest.rows = <<>>

====
